---- MODULE Spec2Model ----
(***************************************************************************)
(* A model of the sqlite-demo notebook (src/sqlite-demo.ipynb): the        *)
(* identifier cleaner clean_name, the SQL texts the cells build with       *)
(* str.format, the statements they execute through sqlite3 connections     *)
(* and the summary functions connect / close / total_rows /                *)
(* table_col_info / values_in_col.                                         *)
(*                                                                         *)
(* A string is a sequence of one-character strings.  A database file is a  *)
(* record for its one table; a connection is a Python sqlite3 connection   *)
(* in its default (deferred, implicit BEGIN before DML) isolation mode.    *)
(***************************************************************************)
EXTENDS Integers, Sequences, FiniteSets, TLC

VARIABLES
    disk,       \* database file -> committed content of the file
    conns,      \* connection -> [open, db, txn, work]
    c,          \* what the module-level name c is bound to
    last,       \* the last operation: its name, arguments, driver calls, result
    memo,       \* the last summary call and whether its table changed since
    name_in,    \* the argument of clean_name
    name_out,   \* [applied, value]: what clean_name returned for name_in
    stmt,       \* the last SQL statement built: [kind, text, params, values]
    main        \* __main__: its position and what its summary calls returned

vars == <<disk, conns, c, last, memo, name_in, name_out, stmt, main>>

dbvars == <<disk, conns, c, last, memo>>

textvars == <<name_in, name_out, stmt>>

----------------------------------------------------------------------------
(* Bounds *)

\* the longest string handed to clean_name
MaxNameLen == 3

\* primary keys are 1..MaxId
MaxId == 1

\* the most columns a table gets (the key column and the added ones)
MaxCols == 3

----------------------------------------------------------------------------
(* Strings and clean_name *)

Letters == {"a", "Z"}

Digits == {"1"}

Alphabet == Letters \cup Digits \cup {"_", ";", " ", "'"}

RECURSIVE StringsUpTo(_)
StringsUpTo(n) ==
    IF n = 0 THEN {<<>>}
    ELSE LET shorter == StringsUpTo(n - 1)
         IN shorter \cup {Append(s, ch) : s \in shorter, ch \in Alphabet}

Names == StringsUpTo(MaxNameLen)

\* str.isalnum on one character
isalnum(char) == char \in Letters \cup Digits

\* the grammar ^[A-Za-z_][A-Za-z0-9_]*$
IsIdentifier(s) ==
    /\ Len(s) >= 1
    /\ s[1] \in Letters \cup {"_"}
    /\ \A i \in 1..Len(s) : s[i] \in Letters \cup Digits \cup {"_"}

\* ''.join(char for char in some_var if char.isalnum())
clean_name(some_var) == SelectSeq(some_var, isalnum)

NotApplied == [applied |-> FALSE, raised |-> "", value |-> <<>>]

\* a call of clean_name: it has no raise statement, so it always returns
CleanName ==
    /\ ~name_out.applied
    /\ name_out' = [applied |-> TRUE, raised |-> "",
                    value |-> clean_name(name_in)]
    /\ UNCHANGED <<name_in, stmt>>
    /\ UNCHANGED dbvars

----------------------------------------------------------------------------
(* SQL texts: str.format on the cells' templates *)

some_id == 123456

TableNames == {"my_table_2", "my_table_3"}

IdColumns == {"my_1st_column", "id"}

DataColumns == {"my_2nd_column", "my_3rd_column"}

Lit(s) == [slot |-> FALSE, s |-> s]

Slot(s) == [slot |-> TRUE, s |-> s]

\* template.format(**kw): every {name} is replaced by str(kw[name])
Format(template, kw) ==
    [i \in DOMAIN template |->
        IF template[i].slot THEN kw[template[i].s] ELSE template[i].s]

\* how a value reads as SQL text: str(123456), 'test'
IntText(n) == ToString(n)

StrText(s) == "'" \o s \o "'"

InsertTemplate ==
    <<Lit("INSERT INTO "), Slot("tn"), Lit(" ("), Slot("idf"), Lit(", "),
      Slot("cn"), Lit(") VALUES ("), Lit(IntText(some_id)), Lit(", "),
      Lit(StrText("test")), Lit(")")>>

InsertOrIgnoreTemplate ==
    <<Lit("INSERT OR IGNORE INTO "), Slot("tn"), Lit(" ("), Slot("idf"),
      Lit(", "), Slot("cn"), Lit(") VALUES ("), Lit(IntText(some_id)),
      Lit(", "), Lit(StrText("test")), Lit(")")>>

UpdateTemplate ==
    <<Lit("UPDATE "), Slot("tn"), Lit(" SET "), Slot("cn"), Lit("=("),
      Lit(StrText("Hi World")), Lit(") WHERE "), Slot("idf"), Lit("=("),
      Lit(IntText(some_id)), Lit(")")>>

SelectByIdTemplate ==
    <<Lit("SELECT * FROM "), Slot("tn"), Lit(" WHERE "), Slot("idf"),
      Lit("="), Slot("my_id")>>

SelectByIdParamTemplate ==
    <<Lit("SELECT * FROM "), Slot("tn"), Lit(" WHERE "), Slot("idf"),
      Lit("="), Lit("?")>>

NoStmt == [kind |-> "none", text |-> <<>>, params |-> <<>>, values |-> <<>>]

\* Every value is kept as the text it has in SQL, so that values of
\* different types can sit in one sequence.
Built(kind, text, params, values) ==
    [kind |-> kind, text |-> text, params |-> params, values |-> values]

\* c.execute("INSERT INTO {tn} ({idf}, {cn}) VALUES (123456, 'test')".format(..))
BuildInsert(tn, idf, cn) ==
    /\ stmt' = Built("INSERT",
                     Format(InsertTemplate, [tn |-> tn, idf |-> idf, cn |-> cn]),
                     <<>>, <<IntText(some_id), StrText("test")>>)
    /\ UNCHANGED <<name_in, name_out>>
    /\ UNCHANGED dbvars

BuildInsertOrIgnore(tn, idf, cn) ==
    /\ stmt' = Built("INSERT OR IGNORE",
                     Format(InsertOrIgnoreTemplate,
                            [tn |-> tn, idf |-> idf, cn |-> cn]),
                     <<>>, <<IntText(some_id), StrText("test")>>)
    /\ UNCHANGED <<name_in, name_out>>
    /\ UNCHANGED dbvars

BuildUpdate(tn, idf, cn) ==
    /\ stmt' = Built("UPDATE",
                     Format(UpdateTemplate, [tn |-> tn, idf |-> idf, cn |-> cn]),
                     <<>>, <<StrText("Hi World"), IntText(some_id)>>)
    /\ UNCHANGED <<name_in, name_out>>
    /\ UNCHANGED dbvars

\* c.execute("SELECT * FROM {tn} WHERE {idf}={my_id}".format(.., my_id=some_id))
BuildSelectById(tn, idf) ==
    /\ stmt' = Built("SELECT WHERE",
                     Format(SelectByIdTemplate,
                            [tn |-> tn, idf |-> idf, my_id |-> IntText(some_id)]),
                     <<>>, <<IntText(some_id)>>)
    /\ UNCHANGED <<name_in, name_out>>
    /\ UNCHANGED dbvars

\* c.execute("SELECT * FROM {tn} WHERE {idf}=?".format(..), (123456,))
BuildSelectByIdParam(tn, idf) ==
    /\ stmt' = Built("SELECT WHERE",
                     Format(SelectByIdParamTemplate, [tn |-> tn, idf |-> idf]),
                     <<IntText(some_id)>>, <<IntText(some_id)>>)
    /\ UNCHANGED <<name_in, name_out>>
    /\ UNCHANGED dbvars

----------------------------------------------------------------------------
(* The database engine: one table per file *)

DBs == {"my_first_db.sqlite", "my_second_db.sqlite"}

Conns == {"conn", "conn2"}

Ids == 1..MaxId

NULL == "<NULL>"

id_column == "my_1st_column"

column_name == "my_2nd_column"

\* the columns the cells add with ALTER TABLE, fewer under a small MaxCols
ColPool == <<"my_2nd_column", "unique_names", "my_3rd_column">>

AddedCols == {ColPool[i] : i \in 1..(IF MaxCols - 1 < 3 THEN MaxCols - 1 ELSE 3)}

\* ADD COLUMN my_3rd_column TEXT DEFAULT 'Hello World'; the others have none
Default(cn) == IF cn = "my_3rd_column" THEN "Hello World" ELSE NULL

NoTable == [exists |-> FALSE, cols |-> <<>>, rows |-> {}]

Range(f) == {f[i] : i \in DOMAIN f}

NoSuchTable == "OperationalError: no such table"

NoSuchColumn == "OperationalError: no such column"

TableExists == "OperationalError: table already exists"

DuplicateColumn == "OperationalError: duplicate column name"

Locked == "OperationalError: database is locked"

IntegrityError == "IntegrityError"

HasKey(t, id) == \E r \in t.rows : r[id_column] = id

\* CREATE TABLE {tn} ({nf} {ft} PRIMARY KEY)
ExecCreateTable(t) ==
    IF t.exists THEN [err |-> TableExists, db |-> t]
    ELSE [err |-> "", db |-> [exists |-> TRUE, cols |-> <<id_column>>, rows |-> {}]]

\* ALTER TABLE {tn} ADD COLUMN '{cn}' {ct} [DEFAULT '{df}']
ExecAddColumn(t, cn) ==
    IF ~t.exists THEN [err |-> NoSuchTable, db |-> t]
    ELSE IF cn \in Range(t.cols) THEN [err |-> DuplicateColumn, db |-> t]
    ELSE [err |-> "",
          db |-> [t EXCEPT
                    !.cols = Append(t.cols, cn),
                    !.rows = {[col \in DOMAIN r \cup {cn} |->
                                  IF col = cn THEN Default(cn) ELSE r[col]]
                              : r \in t.rows}]]

NewRow(t, id, cn, val) ==
    [col \in Range(t.cols) |->
        IF col = id_column THEN id
        ELSE IF col = cn THEN val
        ELSE Default(col)]

\* INSERT OR IGNORE INTO {tn} ({idf}, {cn}) VALUES (id, 'test')
ExecInsertOrIgnore(t, id, cn) ==
    IF ~t.exists THEN [err |-> NoSuchTable, db |-> t]
    ELSE IF cn \notin Range(t.cols) THEN [err |-> NoSuchColumn, db |-> t]
    ELSE IF HasKey(t, id) THEN [err |-> "", db |-> t]
    ELSE [err |-> "",
          db |-> [t EXCEPT !.rows = t.rows \cup {NewRow(t, id, cn, "test")}]]

\* INSERT OR REPLACE in the place of INSERT: the row that holds the key is
\* replaced and no error is raised
ExecInsertReplacing(t, id, cn) ==
    IF ~t.exists THEN [err |-> NoSuchTable, db |-> t]
    ELSE IF cn \notin Range(t.cols) THEN [err |-> NoSuchColumn, db |-> t]
    ELSE [err |-> "",
          db |-> [t EXCEPT
                    !.rows = {r \in t.rows : r[id_column] # id}
                             \cup {NewRow(t, id, cn, "test")}]]

\* INSERT INTO {tn} ({idf}, {cn}) VALUES (id, 'test')
ExecInsert(t, id, cn) ==
    IF ~t.exists THEN [err |-> NoSuchTable, db |-> t]
    ELSE IF cn \notin Range(t.cols) THEN [err |-> NoSuchColumn, db |-> t]
    ELSE IF HasKey(t, id) THEN [err |-> IntegrityError, db |-> t]
    ELSE [err |-> "",
          db |-> [t EXCEPT !.rows = t.rows \cup {NewRow(t, id, cn, "test")}]]

\* UPDATE without its WHERE clause: every row gets the value
ExecUpdateEveryRow(t, id, cn) ==
    IF ~t.exists THEN [err |-> NoSuchTable, db |-> t]
    ELSE IF cn \notin Range(t.cols) THEN [err |-> NoSuchColumn, db |-> t]
    ELSE [err |-> "",
          db |-> [t EXCEPT
                    !.rows = {[r EXCEPT ![cn] = "Hi World"] : r \in t.rows}]]

\* UPDATE {tn} SET {cn}=('Hi World') WHERE {idf}=(id)
ExecUpdate(t, id, cn) ==
    IF ~t.exists THEN [err |-> NoSuchTable, db |-> t]
    ELSE IF cn \notin Range(t.cols) THEN [err |-> NoSuchColumn, db |-> t]
    ELSE [err |-> "",
          db |-> [t EXCEPT
                    !.rows = {IF r[id_column] = id
                              THEN [r EXCEPT ![cn] = "Hi World"] ELSE r
                              : r \in t.rows}]]

\* The key column is INTEGER PRIMARY KEY, an alias of the rowid: never NULL.
NotNull(r, col) == IF col = id_column THEN TRUE ELSE r[col] # NULL

NoRes == [err |-> "", n |-> 0, info |-> <<>>, counts |-> <<>>]

Raised(e) == [NoRes EXCEPT !.err = e]

\* SELECT COUNT(*) FROM {table_name}
QueryCount(t) ==
    IF ~t.exists THEN Raised(NoSuchTable)
    ELSE [NoRes EXCEPT !.n = Cardinality(t.rows)]

\* PRAGMA TABLE_INFO({table_name}): one row (cid, name, type, notnull,
\* dflt_value, pk) per column, and no row and no error for a missing table
QueryTableInfo(t) ==
    [i \in 1..Len(t.cols) |->
        [cid |-> i - 1,
         name |-> t.cols[i],
         type |-> IF t.cols[i] = id_column THEN "INTEGER" ELSE "TEXT",
         notnull |-> 0,
         dflt_value |-> IF t.cols[i] = id_column THEN NULL
                        ELSE IF Default(t.cols[i]) = NULL THEN NULL
                        ELSE StrText(Default(t.cols[i])),
         pk |-> IF t.cols[i] = id_column THEN 1 ELSE 0]]

\* SELECT ({col}) FROM {table_name} WHERE {col} IS NOT NULL, then len(fetchall())
QueryNotNull(t, col) ==
    IF ~t.exists THEN Raised(NoSuchTable)
    ELSE IF col \notin Range(t.cols) THEN Raised(NoSuchColumn)
    ELSE [NoRes EXCEPT !.n = Cardinality({r \in t.rows : NotNull(r, col)})]

----------------------------------------------------------------------------
(* Connections *)

Closed == [open |-> FALSE, db |-> "", txn |-> FALSE, work |-> NoTable]

\* what a connection reads: its own pending changes, else the file
ViewIn(cs, dk, k) == IF cs[k].txn THEN cs[k].work ELSE dk[cs[k].db]

View(k) == ViewIn(conns, disk, k)

\* another connection holds the file's write lock
LockedFor(k) ==
    \E k2 \in Conns \ {k} :
        conns[k2].open /\ conns[k2].db = conns[k].db /\ conns[k2].txn

NoMemo == [op |-> "none", conn |-> "", res |-> NoRes, valid |-> FALSE]

\* the connection whose cursor the caller hands to the summary functions
\* (conn of __main__); the other one is any other connection of the process
Caller == "conn"

\* the files a connection is opened on: the two files are interchangeable,
\* so the other connection stays on the first one
FilesOf(k) == IF k = Caller THEN DBs ELSE {"my_first_db.sqlite"}

\* the memo of the last summary call stays valid while the table its cursor
\* reads is the same; the step that closes the cursor's connection keeps
\* the name of the call, and any later step forgets it
Track(cs, dk) ==
    IF memo.valid /\ ~cs[memo.conn].open
    THEN [memo EXCEPT !.valid = FALSE, !.res = NoRes]
    ELSE IF /\ memo.valid
            /\ ViewIn(cs, dk, memo.conn) = View(memo.conn)
    THEN memo
    ELSE NoMemo

Did(op, k, id, calls, via, res) ==
    [op |-> op, conn |-> k, id |-> id, calls |-> calls, via |-> via, res |-> res]

\* __main__ before its first statement: nothing returned yet
NotStarted ==
    [pc |-> "connect", total |-> 0, info |-> <<>>, col_dict |-> <<>>, todo |-> 0]

Init ==
    /\ disk = [d \in DBs |-> NoTable]
    /\ conns = [k \in Conns |-> Closed]
    /\ c = "unbound"
    /\ last = Did("none", "", 0, <<>>, {}, NoRes)
    /\ memo = NoMemo
    /\ name_in = <<>>
    /\ name_out = NotApplied
    /\ stmt = NoStmt
    /\ main = NotStarted

\* conn = sqlite3.connect(sqlite_file); c = conn.cursor(); return conn, c
\* The caller binds the returned cursor to the module-level name c (as
\* __main__ does) or to a name of its own.
connect(k, sqlite_file, bind) ==
    /\ ~conns[k].open
    /\ conns' = [conns EXCEPT ![k] = [open |-> TRUE, db |-> sqlite_file,
                                      txn |-> FALSE, work |-> NoTable]]
    /\ c' = IF bind THEN k ELSE c
    /\ last' = Did("connect", k, 0, <<"connect", "cursor">>, {}, NoRes)
    /\ memo' = Track(conns', disk)
    /\ UNCHANGED disk
    /\ UNCHANGED textvars

\* conn.commit()
Commit(k) ==
    /\ conns[k].open
    /\ disk' = IF conns[k].txn THEN [disk EXCEPT ![conns[k].db] = conns[k].work]
               ELSE disk
    /\ conns' = [conns EXCEPT ![k].txn = FALSE, ![k].work = NoTable]
    /\ last' = Did("commit", k, 0, <<"commit">>, {}, NoRes)
    /\ memo' = Track(conns', disk')
    /\ UNCHANGED c
    /\ UNCHANGED textvars

\* close(conn) with the commit uncommented
close_committing(k) ==
    /\ conns[k].open
    /\ disk' = IF conns[k].txn THEN [disk EXCEPT ![conns[k].db] = conns[k].work]
               ELSE disk
    /\ conns' = [conns EXCEPT ![k] = Closed]
    /\ c' = IF c = k THEN "stale" ELSE c
    /\ last' = Did("close", k, 0, <<"commit", "close">>, {}, NoRes)
    /\ memo' = Track(conns', disk')
    /\ UNCHANGED textvars

\* def close(conn): # conn.commit() ; conn.close()
\* Closing rolls back what is pending; a cursor of the closed connection
\* stays bound and raises ProgrammingError when used.
close(k) ==
    /\ conns[k].open
    /\ conns' = [conns EXCEPT ![k] = Closed]
    /\ c' = IF c = k THEN "stale" ELSE c
    /\ last' = Did("close", k, 0, <<"close">>, {}, NoRes)
    /\ memo' = Track(conns', disk)
    /\ UNCHANGED disk
    /\ UNCHANGED textvars

\* A schema statement through connection k: sqlite3 opens no transaction
\* for it, so outside a transaction it is committed at once.
Schema(k, op, r) ==
    LET res == IF r.err # "" THEN r
               ELSE IF LockedFor(k) THEN [err |-> Locked, db |-> View(k)]
               ELSE r
    IN /\ conns' = IF conns[k].txn THEN [conns EXCEPT ![k].work = res.db]
                   ELSE conns
       /\ disk' = IF conns[k].txn THEN disk
                  ELSE [disk EXCEPT ![conns[k].db] = res.db]
       /\ last' = Did(op, k, 0, <<"execute">>, {k}, Raised(res.err))
       /\ memo' = Track(conns', disk')
       /\ UNCHANGED c
       /\ UNCHANGED textvars

CreateTable(k) ==
    /\ conns[k].open
    /\ Schema(k, "create table", ExecCreateTable(View(k)))

AddColumn(k, cn) ==
    /\ conns[k].open
    /\ Schema(k, "add column", ExecAddColumn(View(k), cn))

\* A data statement through connection k: sqlite3 begins a transaction
\* before it; a statement that does not compile begins none, and one that
\* finds the file locked changes nothing.
Data(k, op, id, r) ==
    LET compiled == r.err \notin {NoSuchTable, NoSuchColumn}
        res == IF ~compiled THEN r
               ELSE IF LockedFor(k) THEN [err |-> Locked, db |-> View(k)]
               ELSE r
        began == compiled /\ res.err # Locked
    IN /\ conns' = IF began
                   THEN [conns EXCEPT ![k].txn = TRUE, ![k].work = res.db]
                   ELSE conns
       /\ last' = Did(op, k, id, <<"execute">>, {k}, Raised(res.err))
       /\ memo' = Track(conns', disk)
       /\ UNCHANGED <<disk, c>>
       /\ UNCHANGED textvars

\* try: c.execute("INSERT INTO ...") except sqlite3.IntegrityError: print(..)
Insert(k, id) ==
    /\ conns[k].open
    /\ Data(k, "insert", id, ExecInsert(View(k), id, column_name))

InsertOrIgnore(k, id) ==
    /\ conns[k].open
    /\ Data(k, "insert or ignore", id, ExecInsertOrIgnore(View(k), id, column_name))

Update(k, id) ==
    /\ conns[k].open
    /\ Data(k, "update", id, ExecUpdate(View(k), id, column_name))

----------------------------------------------------------------------------
(* The summary functions *)

SummaryOps == {"total_rows", "table_col_info", "values_in_col"}

\* cursor.execute('SELECT COUNT(*) FROM {}'.format(table_name)); count[0][0]
total_rows(cursor) == QueryCount(View(cursor))

\* cursor.execute('PRAGMA TABLE_INFO({})'.format(table_name)); fetchall()
table_col_info(cursor) == [NoRes EXCEPT !.info = QueryTableInfo(View(cursor))]

\* c.execute(...) inside values_in_col: the module-level c, not cursor
ThroughC(col) ==
    IF c = "unbound" THEN Raised("NameError")
    ELSE IF c = "stale" THEN Raised("ProgrammingError")
    ELSE QueryNotNull(View(c), col)

\* the keys of col_dict, in insertion order
ColDictKeys(cursor) ==
    LET info == QueryTableInfo(View(cursor))
    IN [i \in 1..Len(info) |-> info[i].name]

values_in_col(cursor) ==
    LET keys == ColDictKeys(cursor)
        failing == {i \in 1..Len(keys) : ThroughC(keys[i]).err # ""}
    IN IF failing # {}
       THEN Raised(ThroughC(keys[CHOOSE i \in failing :
                                     \A j \in failing : i <= j]).err)
       ELSE [NoRes EXCEPT
               !.counts = [i \in 1..Len(keys) |->
                              [name |-> keys[i], n |-> ThroughC(keys[i]).n]]]

\* the cursors the queries of values_in_col go through
ValuesInColVia(cursor) ==
    IF Len(ColDictKeys(cursor)) = 0 THEN {cursor} ELSE {cursor, c}

Summary(op, cursor, via, res) ==
    /\ conns[cursor].open
    /\ last' = Did(op, cursor, 0, <<"execute", "fetchall">>, via, NoRes)
    /\ memo' = [op |-> op, conn |-> cursor, res |-> res, valid |-> TRUE]
    /\ UNCHANGED <<disk, conns, c>>
    /\ UNCHANGED textvars

TotalRows(cursor) == Summary("total_rows", cursor, {cursor}, total_rows(cursor))

TableColInfo(cursor) ==
    Summary("table_col_info", cursor, {cursor}, table_col_info(cursor))

ValuesInCol(cursor) ==
    Summary("values_in_col", cursor, ValuesInColVia(cursor), values_in_col(cursor))

----------------------------------------------------------------------------
(* Specifications *)

Next ==
    \/ /\ \E k \in Conns : \E d \in FilesOf(k), bind \in BOOLEAN : connect(k, d, bind)
       /\ UNCHANGED main
    \/ /\ \E k \in Conns : Commit(k)
       /\ UNCHANGED main
    \/ /\ \E k \in Conns : close(k)
       /\ UNCHANGED main
    \/ /\ \E k \in Conns : CreateTable(k)
       /\ UNCHANGED main
    \/ /\ \E k \in Conns, cn \in AddedCols : AddColumn(k, cn)
       /\ UNCHANGED main
    \/ /\ \E k \in Conns, id \in Ids : Insert(k, id)
       /\ UNCHANGED main
    \/ /\ \E k \in Conns, id \in Ids : InsertOrIgnore(k, id)
       /\ UNCHANGED main
    \/ /\ \E k \in Conns, id \in Ids : Update(k, id)
       /\ UNCHANGED main
    \/ /\ TotalRows(Caller)
       /\ UNCHANGED main
    \/ /\ TableColInfo(Caller)
       /\ UNCHANGED main
    \/ /\ ValuesInCol(Caller)
       /\ UNCHANGED main

Spec == Init /\ [][Next]_vars

InitText ==
    /\ disk = [d \in DBs |-> NoTable]
    /\ conns = [k \in Conns |-> Closed]
    /\ c = "unbound"
    /\ last = Did("none", "", 0, <<>>, {}, NoRes)
    /\ memo = NoMemo
    /\ name_in \in Names
    /\ name_out = NotApplied
    /\ stmt = NoStmt
    /\ main = NotStarted

NextText ==
    \/ /\ CleanName
       /\ UNCHANGED main
    \/ /\ \E tn \in TableNames, idf \in IdColumns, cn \in DataColumns :
             BuildInsert(tn, idf, cn)
       /\ UNCHANGED main
    \/ /\ \E tn \in TableNames, idf \in IdColumns, cn \in DataColumns :
             BuildInsertOrIgnore(tn, idf, cn)
       /\ UNCHANGED main
    \/ /\ \E tn \in TableNames, idf \in IdColumns, cn \in DataColumns :
             BuildUpdate(tn, idf, cn)
       /\ UNCHANGED main
    \/ /\ \E tn \in TableNames, idf \in IdColumns : BuildSelectById(tn, idf)
       /\ UNCHANGED main
    \/ /\ \E tn \in TableNames, idf \in IdColumns : BuildSelectByIdParam(tn, idf)
       /\ UNCHANGED main

SpecText == InitText /\ [][NextText]_vars

----------------------------------------------------------------------------
(* Properties of clean_name and of the SQL texts, under SpecText *)

\* C1: for every string that matches the identifier grammar, underscores
\* included, clean_name returns its input, character for character.
C1_CleanNameKeepsIdentifiers ==
    (name_out.applied /\ IsIdentifier(name_in))
        => (name_out.raised = "" /\ name_out.value = name_in)

\* C2: for every string that violates the identifier grammar (empty, leading
\* digit, or holding ';', a space or a quote), clean_name fails with
\* InvalidIdentifier and returns no altered name.
C2_CleanNameRejectsInvalid ==
    (name_out.applied /\ ~IsIdentifier(name_in))
        => name_out.raised = "InvalidIdentifier"

DataKinds == {"INSERT", "INSERT OR IGNORE", "UPDATE", "SELECT WHERE"}

Placeholders(text) == Cardinality({i \in DOMAIN text : text[i] = "?"})

\* C3: in every statement that carries data values, no value stands as
\* literal text in the SQL text: each is a placeholder, and there are as
\* many placeholders as bound values.
C3_ValuesAreBound ==
    stmt.kind \in DataKinds
        => /\ \A i \in DOMAIN stmt.values : stmt.values[i] \notin Range(stmt.text)
           /\ Placeholders(stmt.text) = Len(stmt.values)
           /\ Placeholders(stmt.text) = Len(stmt.params)

----------------------------------------------------------------------------
(* Properties of the statements and of the summary functions, under Spec *)

\* what the claims expect of a summary of table t
RowCount(t) == Cardinality(t.rows)

NonNullCount(t, col) == Cardinality({r \in t.rows : NotNull(r, col)})

IsColumnList(info, t) ==
    /\ Len(info) = Len(t.cols)
    /\ \A i \in 1..Len(info) : info[i].cid = i - 1 /\ info[i].name = t.cols[i]

IsNonNullMapping(counts, t) ==
    /\ Len(counts) = Len(t.cols)
    /\ \A i \in 1..Len(counts) :
          /\ counts[i].name = t.cols[i]
          /\ counts[i].n = NonNullCount(t, t.cols[i])

\* a summary function has just returned or raised: memo holds its result
JustSummarized(op) == last.op = op /\ memo.valid /\ memo.op = op

\* C4: for an existing table and no other writer, total_rows is the number
\* of rows, table_col_info one descriptor per column in ordinal order, and
\* values_in_col maps the column names, in that order, to the number of
\* rows in which the column is not null.
C4_SummaryIsExact ==
    \A op \in SummaryOps :
        (JustSummarized(op) /\ View(Caller).exists /\ ~LockedFor(Caller))
            => /\ memo.res.err = ""
               /\ op = "total_rows" => memo.res.n = RowCount(View(Caller))
               /\ op = "table_col_info"
                     => IsColumnList(memo.res.info, View(Caller))
               /\ op = "values_in_col"
                     => IsNonNullMapping(memo.res.counts, View(Caller))

\* the engine runs the INSERT of connection k: its columns exist and no
\* other connection holds the write lock of the file
InsertRuns(k) ==
    /\ conns[k].open
    /\ View(k).exists
    /\ column_name \in Range(View(k).cols)
    /\ ~LockedFor(k)

\* C5: a plain INSERT of a row whose primary key is already in the table is
\* reported as IntegrityError, and the table's rows (what the connection
\* reads and what the file holds) are after it what they were before.
C5_DuplicateInsertRejected ==
    [][\A k \in Conns, id \in Ids :
          (/\ last'.op = "insert" /\ last'.conn = k /\ last'.id = id
           /\ InsertRuns(k)
           /\ HasKey(View(k), id))
              => /\ last'.res.err = IntegrityError
                 /\ ViewIn(conns', disk', k) = View(k)
                 /\ disk' = disk]_vars

\* a duplicate key was just refused, in a table that holds rows
C5_Witness ==
    /\ last.op = "insert"
    /\ last.res.err = IntegrityError
    /\ conns[last.conn].open
    /\ HasKey(View(last.conn), last.id)

\* C6: every summary function called on a table that does not exist fails
\* with the engine's no-such-table error; none returns a normal result.
C6_MissingTableRaises ==
    \A op \in SummaryOps :
        (JustSummarized(op) /\ ~View(Caller).exists)
            => memo.res.err = NoSuchTable

C8_SummaryIdempotent ==
    [][(/\ last'.op \in SummaryOps
        /\ memo.valid /\ memo.op = last'.op
        /\ memo.res.err = "" /\ memo'.res.err = "")
           => memo'.res = memo.res]_vars

\* C9: close(conn) commits: what conn read before close(conn), pending
\* inserts, updates and schema changes included, is what the file holds after.
C9_CloseCommits ==
    [][\A k \in Conns :
          (last'.op = "close" /\ last'.conn = k /\ conns[k].open)
              => disk'[conns[k].db] = View(k)]_vars

\* the module-level c is bound to a cursor of an open connection to
\* another database than the one of the cursor passed
TwoDatabases ==
    /\ c \in Conns \ {Caller}
    /\ conns[c].open /\ conns[Caller].open
    /\ conns[c].db # conns[Caller].db

\* C10: with two connections to different databases open, every query of
\* values_in_col goes through the cursor passed to it and through no
\* module-level cursor: it returns the non-null counts of the table in that
\* cursor's database, whatever the module-level c is bound to.
C10_ValuesInColUsesItsCursor ==
    (JustSummarized("values_in_col") /\ TwoDatabases /\ View(Caller).exists)
        => /\ last.via = {Caller}
           /\ memo.res.err = ""
           /\ IsNonNullMapping(memo.res.counts, View(Caller))

----------------------------------------------------------------------------
(* The insert/update cell, run on its own: connect, INSERT with             *)
(* IntegrityError caught, INSERT OR IGNORE, UPDATE, commit, close.  The     *)
(* cell's position is the last operation it did; an exception it does not   *)
(* catch ends it.                                                           *)

\* sqlite_file = 'my_first_db.sqlite' of the cell
CellFile == "my_first_db.sqlite"

\* the keys a table holds when the cell starts: 123456 and the other ones
CellKeys == Ids \cup {some_id}

\* what my_2nd_column holds: nothing, the inserted or the updated value
CellValues == {NULL, "test", "Hi World"}

\* the column lists the earlier cells leave: the key column, then the
\* added columns in the order the cells add them
CellCols ==
    {SubSeq(<<id_column>> \o ColPool, 1, n) :
        n \in 1..(IF MaxCols < 4 THEN MaxCols ELSE 4)}

CellRows(cols) ==
    {NewRow([cols |-> cols], id, column_name, v) : id \in CellKeys, v \in CellValues}

\* the tables the cell can find: none, or one with at most one row per key
CellTables ==
    {NoTable} \cup
    UNION {{[exists |-> TRUE, cols |-> cols, rows |-> rows] :
               rows \in {S \in SUBSET CellRows(cols) :
                            \A r1, r2 \in S :
                                r1[id_column] = r2[id_column] => r1 = r2}}
           : cols \in CellCols}

InitCell ==
    /\ disk \in {[d \in DBs |-> IF d = CellFile THEN t ELSE NoTable] :
                    t \in CellTables}
    /\ conns = [k \in Conns |-> Closed]
    /\ c = "unbound"
    /\ last = Did("none", "", 0, <<>>, {}, NoRes)
    /\ memo = NoMemo
    /\ name_in = <<>>
    /\ name_out = NotApplied
    /\ stmt = NoStmt
    /\ main = NotStarted

\* conn = sqlite3.connect(sqlite_file); c = conn.cursor()
\* The cell can be run again once it has closed its connection.
CellConnect ==
    /\ last.op \in {"none", "close"}
    /\ connect(Caller, CellFile, TRUE)

\* A) try: c.execute("INSERT INTO ...") except sqlite3.IntegrityError: print
CellInsert ==
    /\ last.op = "connect"
    /\ Insert(Caller, some_id)

\* B) c.execute("INSERT OR IGNORE INTO ..."), reached when A) raised nothing
\* or the IntegrityError that is caught
CellInsertOrIgnore ==
    /\ last.op = "insert"
    /\ last.res.err \in {"", IntegrityError}
    /\ InsertOrIgnore(Caller, some_id)

\* C) c.execute("UPDATE ... SET {cn}=('Hi World') WHERE {idf}=(123456)")
CellUpdate ==
    /\ last.op = "insert or ignore"
    /\ last.res.err = ""
    /\ Update(Caller, some_id)

\* conn.commit()
CellCommit ==
    /\ last.op = "update"
    /\ last.res.err = ""
    /\ Commit(Caller)

\* conn.close()
CellClose ==
    /\ last.op = "commit"
    /\ close(Caller)

NextCell ==
    \/ /\ CellConnect
       /\ UNCHANGED main
    \/ /\ CellInsert
       /\ UNCHANGED main
    \/ /\ CellInsertOrIgnore
       /\ UNCHANGED main
    \/ /\ CellUpdate
       /\ UNCHANGED main
    \/ /\ CellCommit
       /\ UNCHANGED main
    \/ /\ CellClose
       /\ UNCHANGED main

SpecCell == InitCell /\ [][NextCell]_vars

----------------------------------------------------------------------------
(* Properties of the insert/update cell, under SpecCell *)

\* the rows of table t whose primary key is 123456, and the other ones
KeyRows(t) == {r \in t.rows : r[id_column] = some_id}

OtherRows(t) == {r \in t.rows : r[id_column] # some_id}

\* C11: whatever the table holds when the cell starts (key 123456 absent,
\* or present with any value in my_2nd_column), after INSERT with
\* IntegrityError caught, INSERT OR IGNORE, UPDATE and commit the file
\* holds exactly one row with key 123456, its my_2nd_column is 'Hi World',
\* every other row is what it was, and there is one row more if the key was
\* absent and the same number if it was present; and an INSERT OR IGNORE
\* of a key that exists raises nothing and changes nothing.
C11_InsertIgnoreUpdateCommit ==
    [][/\ (last.op = "update" /\ last'.op = "commit")
             => /\ Cardinality(KeyRows(disk'[CellFile])) = 1
                /\ \A r \in KeyRows(disk'[CellFile]) :
                       r[column_name] = "Hi World"
                /\ OtherRows(disk'[CellFile]) = OtherRows(disk[CellFile])
                /\ Cardinality(disk'[CellFile].rows)
                      = Cardinality(disk[CellFile].rows)
                        + (IF HasKey(disk[CellFile], some_id) THEN 0 ELSE 1)
       /\ (/\ last'.op = "insert or ignore"
           /\ conns[Caller].open
           /\ HasKey(View(Caller), some_id))
             => /\ last'.res.err = ""
                /\ ViewIn(conns', disk', Caller) = View(Caller)
                /\ disk' = disk]_vars

\* the cell has just committed into a table that holds other rows: the row
\* of key 123456 holds 'Hi World'
C11_Witness ==
    /\ last.op = "commit"
    /\ last.conn = Caller
    /\ OtherRows(disk[CellFile]) # {}
    /\ \E r \in KeyRows(disk[CellFile]) : r[column_name] = "Hi World"

----------------------------------------------------------------------------
(* __main__, statement by statement, beside another connection that writes. *)
(* values_in_col is taken query by query: its PRAGMA, then one SELECT per   *)
(* key of col_dict.  The queries open no transaction, so each one reads     *)
(* what the file holds when it runs.                                        *)

\* sqlite_file = 'my_first_db.sqlite' of __main__
MainFile == "my_first_db.sqlite"

\* the other connection: it writes the same file and binds no name of
\* __main__ (c stays the cursor of conn)
Other == "conn2"

\* an exception nothing catches ends __main__
MainRaised == [main EXCEPT !.pc = "raised"]

\* conn, c = connect(sqlite_file); __main__ can be run again when it is done
MainConnect ==
    /\ main.pc \in {"connect", "done"}
    /\ connect(Caller, MainFile, TRUE)
    /\ main' = [NotStarted EXCEPT !.pc = "total_rows"]

\* total_rows(c, table_name, print_out=True)
MainTotalRows ==
    /\ main.pc = "total_rows"
    /\ TotalRows(Caller)
    /\ main' = IF total_rows(Caller).err # "" THEN MainRaised
               ELSE [main EXCEPT !.pc = "table_col_info",
                                 !.total = total_rows(Caller).n]

\* table_col_info(c, table_name, print_out=True)
MainTableColInfo ==
    /\ main.pc = "table_col_info"
    /\ TableColInfo(Caller)
    /\ main' = [main EXCEPT !.pc = "values_in_col",
                            !.info = table_col_info(Caller).info]

\* values_in_col: cursor.execute('PRAGMA TABLE_INFO({})'); info = fetchall();
\* for col in info: col_dict[col[1]] = 0
MainValuesInColInfo ==
    /\ main.pc = "values_in_col"
    /\ Summary("values_in_col", Caller, {Caller}, NoRes)
    /\ main' = [main EXCEPT
                  !.pc = IF Len(ColDictKeys(Caller)) = 0 THEN "close" ELSE "select",
                  !.col_dict = [i \in 1..Len(ColDictKeys(Caller)) |->
                                   [name |-> ColDictKeys(Caller)[i], n |-> 0]],
                  !.todo = 1]

\* values_in_col: one turn of "for col in col_dict": c.execute('SELECT ...');
\* number_rows = len(c.fetchall()); col_dict[col] = number_rows
MainValuesInColSelect ==
    /\ main.pc = "select"
    /\ Summary("values_in_col", Caller, {Caller, c}, NoRes)
    /\ main' = IF ThroughC(main.col_dict[main.todo].name).err # "" THEN MainRaised
               ELSE [main EXCEPT
                       !.pc = IF main.todo = Len(main.col_dict)
                              THEN "close" ELSE "select",
                       !.col_dict[main.todo].n =
                           ThroughC(main.col_dict[main.todo].name).n,
                       !.todo = main.todo + 1]

\* close(conn)
MainClose ==
    /\ main.pc = "close"
    /\ close(Caller)
    /\ main' = [main EXCEPT !.pc = "done"]

\* what the other connection does meanwhile
OtherConnect == connect(Other, MainFile, FALSE) /\ UNCHANGED main

OtherCreateTable == CreateTable(Other) /\ UNCHANGED main

OtherAddColumn == (\E cn \in AddedCols : AddColumn(Other, cn)) /\ UNCHANGED main

OtherInsert == (\E id \in Ids : Insert(Other, id)) /\ UNCHANGED main

OtherCommit == Commit(Other) /\ UNCHANGED main

OtherClose == close(Other) /\ UNCHANGED main

NextMain ==
    \/ MainConnect
    \/ MainTotalRows
    \/ MainTableColInfo
    \/ MainValuesInColInfo
    \/ MainValuesInColSelect
    \/ MainClose
    \/ OtherConnect
    \/ OtherCreateTable
    \/ OtherAddColumn
    \/ OtherInsert
    \/ OtherCommit
    \/ OtherClose

SpecMain == Init /\ [][NextMain]_vars

----------------------------------------------------------------------------
(* Properties of __main__'s summary, under SpecMain *)

\* total_rows, table_col_info and values_in_col have all returned
SummaryDone == main.pc \in {"close", "done"}

\* C12: in a summary made of total_rows, table_col_info and values_in_col on
\* the same table, every column's non-null count is at most the total row
\* count and the keys of the non-null mapping are the column names of
\* table_col_info, also when another connection inserts rows or adds a
\* column between the queries of the summary.
C12_SummaryIsConsistent ==
    SummaryDone
        => /\ \A i \in 1..Len(main.col_dict) : main.col_dict[i].n <= main.total
           /\ [i \in 1..Len(main.col_dict) |-> main.col_dict[i].name]
                 = [i \in 1..Len(main.info) |-> main.info[i].name]

====
